---- MODULE Spec2Model ----
(***************************************************************************)
(* Model of camouflage-core: the ultrasonic SignalGenerator (signal.rs),   *)
(* the SpeakerJammer / SystemJammer stream lifecycle (jammer.rs) and the   *)
(* daemon's PID file (daemon.rs), with the command line of main.rs.        *)
(*                                                                         *)
(* f32 values (phase, amplitude, sample) are fixed-point integers in units *)
(* of 1/Unit; every division and multiplication rounds to the nearest unit *)
(* (ties to even), which is how the model keeps the rounding of f32        *)
(* arithmetic.  Frequencies are kept in Hz (doubled where a tone offset is *)
(* a half-integer multiple of the spread): f32 represents them exactly.    *)
(***************************************************************************)
EXTENDS Integers, Sequences, FiniteSets, TLC

VARIABLES
    g,          \* a stand-alone SignalGenerator: [config, phase, tone_phases]
    out,        \* the samples written by the last generator call, in order
    prev,       \* the stand-alone generator as it was before the last call
    op,         \* the last call made on the stand-alone generator
    arg,        \* the config handed to the last new / update_config
    pc,         \* where the control thread is in the jammer's methods
    kind,       \* "speaker" (SpeakerJammer) or "system" (SystemJammer)
    generator,  \* the jammer's generator, behind Arc<Mutex<..>>
    lock,       \* the threads holding the generator's mutex
    poisoned,   \* the mutex's poison flag: a thread panicked holding its guard
    dev,        \* the jammer's StreamConfig: [sample_rate, channels]
    stream,     \* self.stream: 0 for None, the stream's number for Some
    st,         \* every cpal stream built so far: its state
    cb,         \* every stream's data callback: [pc, left, data]
    local,      \* start()'s local `stream`, 0 outside start()
    joining,    \* the stream whose drop the control thread is waiting in
    cont,       \* where the control thread goes on when stop() returns
    lastcall,   \* the method called last on the jammer
    entry,      \* self.stream when that call was made
    result,     \* what the last call that returned gave
    epoch,      \* the number of reconfigurations applied to gen
    host,       \* what cpal's default host offered when the jammer was created
    requested,  \* the SignalConfig the caller handed to new()
    mix_ratio,  \* a SystemJammer's mix_ratio
    cbstart,    \* every running callback: its buffer's frames, the generator it found
    mainpc,     \* where main() is; "none" when the jammer is used as a library
    cli,        \* main's parsed arguments: [frequency, amplitude, num_tones, spread]
    mode,       \* main's cli.mode
    main_config,\* main's `config`
    min_freq,   \* main's min_freq, doubled
    max_freq,   \* main's max_freq, doubled
    warnings,   \* the warnings main has printed
    log,        \* the messages logged (tracing) and printed so far
    pidfile,    \* the daemon's PID file: [exists, content]
    dstart,     \* every `daemon start` invocation: the caller and its forked child
    dstop       \* every `daemon stop` invocation: where it is in stop_daemon()

gvars == <<g, out, prev, op, arg>>

svars == <<pc, kind, generator, lock, poisoned, dev, stream, st, cb, local, joining,
           cont, lastcall, entry, result, epoch>>

hvars == <<host, requested, mix_ratio>>

mvars == <<mainpc, cli, mode, main_config, min_freq, max_freq, warnings>>

dvars == <<pidfile, dstart, dstop>>

vars == <<gvars, svars, hvars, cbstart, mvars, log, dvars>>

----------------------------------------------------------------------------
(* Bounds of the model *)

\* longest buffer handed to generate_buffer
MaxBuf == 3

\* a phase accumulator is followed up to this many cycles away from 0
MaxCycles == 2

\* streams one jammer builds over its life
MaxStreams == 2

\* frames in one callback buffer
MaxFrames == 2

\* reconfigurations of one jammer's generator
MaxReconfig == 1

\* samples after which no further callback is followed in a run of main
MaxCliSamples == 3

\* `camouflage daemon start` invocations that may run at once
MaxStarters == 2

\* `camouflage daemon stop` invocations that may run at once
MaxStoppers == 2

----------------------------------------------------------------------------
(* f32 arithmetic *)

\* one unit of the fixed-point grid is 1/Unit
Unit == 2^10

Abs(x) == IF x < 0 THEN -x ELSE x

\* n / d rounded to the nearest integer, ties to even (d > 0)
RoundDiv(n, d) ==
    LET q == n \div d
        r == n % d
    IN  IF 2 * r < d THEN q
        ELSE IF 2 * r > d THEN q + 1
        ELSE IF q % 2 = 0 THEN q ELSE q + 1

\* x * y of two grid values, rounded to the grid
fmul(x, y) == RoundDiv(x * y, Unit)

\* round(Unit * sin(2 pi k / Unit)) for k = 0 .. Unit/4, at index k + 1
SinQuarter ==
  << 0, 6, 13, 19, 25, 31, 38, 44, 50, 57, 63, 69, 75, 82, 88, 94,
     100, 107, 113, 119, 125, 132, 138, 144, 150, 156, 163, 169, 175, 181, 187, 194,
     200, 206, 212, 218, 224, 230, 237, 243, 249, 255, 261, 267, 273, 279, 285, 291,
     297, 303, 309, 315, 321, 327, 333, 339, 345, 351, 357, 363, 369, 374, 380, 386,
     392, 398, 403, 409, 415, 421, 426, 432, 438, 443, 449, 455, 460, 466, 472, 477,
     483, 488, 494, 499, 505, 510, 516, 521, 526, 532, 537, 543, 548, 553, 558, 564,
     569, 574, 579, 584, 590, 595, 600, 605, 610, 615, 620, 625, 630, 635, 640, 645,
     650, 654, 659, 664, 669, 674, 678, 683, 688, 692, 697, 702, 706, 711, 715, 720,
     724, 729, 733, 737, 742, 746, 750, 755, 759, 763, 767, 771, 775, 779, 784, 788,
     792, 796, 799, 803, 807, 811, 815, 819, 822, 826, 830, 834, 837, 841, 844, 848,
     851, 855, 858, 862, 865, 868, 872, 875, 878, 882, 885, 888, 891, 894, 897, 900,
     903, 906, 909, 912, 915, 917, 920, 923, 926, 928, 931, 934, 936, 939, 941, 944,
     946, 948, 951, 953, 955, 958, 960, 962, 964, 966, 968, 970, 972, 974, 976, 978,
     980, 982, 983, 985, 987, 989, 990, 992, 993, 995, 996, 998, 999, 1000, 1002, 1003,
     1004, 1006, 1007, 1008, 1009, 1010, 1011, 1012, 1013, 1014, 1015, 1016, 1016, 1017, 1018, 1018,
     1019, 1020, 1020, 1021, 1021, 1022, 1022, 1022, 1023, 1023, 1023, 1024, 1024, 1024, 1024, 1024,
     1024 >>

\* (2.0 * PI * phase).sin() for a phase in units of 1/Unit of a cycle
SinCycle(phase) ==
    LET k == phase % Unit
        h == Unit \div 2
        q == Unit \div 4
    IN  IF k <= q THEN SinQuarter[k + 1]
        ELSE IF k <= h THEN SinQuarter[h - k + 1]
        ELSE IF k <= h + q THEN -SinQuarter[k - h + 1]
        ELSE -SinQuarter[Unit - k + 1]

----------------------------------------------------------------------------
(* signal.rs: SignalConfig and SignalGenerator *)

SignalConfig(f, sr, a, n, spread) ==
    [frequency |-> f, sample_rate |-> sr, amplitude |-> a,
     num_tones |-> n, frequency_spread |-> spread]

\* vec![0.0; n]
Zeros(n) == [i \in 1..n |-> 0]

\* SignalGenerator::new
SignalGenerator_new(config) ==
    [config |-> config, phase |-> 0, tone_phases |-> Zeros(config.num_tones)]

\* the wrap only once the phase is past a full cycle
Wrap_Late(phase) == IF phase > Unit THEN phase - Unit ELSE phase

\* a phase that is never wrapped
Wrap_Never(phase) == phase

\* if phase >= 1.0 { phase -= 1.0 }
Wrap(phase) == IF phase >= Unit THEN phase - Unit ELSE phase

\* the tones spread upwards from the base frequency
ToneFreq2_Uncentred(config, i) ==
    2 * config.frequency + 2 * i * config.frequency_spread

\* twice the frequency of tone i (0-indexed):
\* 2 * (frequency + (i - (num_tones - 1) / 2) * frequency_spread)
ToneFreq2(config, i) ==
    2 * config.frequency + (2 * i - (config.num_tones - 1)) * config.frequency_spread

\* freq / sample_rate as f32, for twice the frequency freq2
PhaseStep(freq2, sample_rate) == RoundDiv(freq2 * Unit, 2 * sample_rate)

\* the amplitude not split over the tones
AmplitudePerTone_Unsplit(config) == config.amplitude

\* amplitude / num_tones as f32
AmplitudePerTone(config) == RoundDiv(config.amplitude, config.num_tones)

\* the loop over the tone bank of the multi-tone branch, from tone i on:
\* the bank after it and the sample summed
RECURSIVE ToneLoop(_, _, _, _)
ToneLoop(config, phases, i, sample) ==
    IF i >= Len(phases) THEN [tone_phases |-> phases, sample |-> sample]
    ELSE LET phase == phases[i + 1]
             freq2 == ToneFreq2(config, i)
             s     == sample + fmul(AmplitudePerTone(config), SinCycle(phase))
             p     == Wrap(phase + PhaseStep(freq2, config.sample_rate))
         IN  ToneLoop(config, [phases EXCEPT ![i + 1] = p], i + 1, s)

\* next_sample that runs the loop over the tone bank in single-tone mode too
next_sample_AlwaysBank(gen) ==
    LET r == ToneLoop(gen.config, gen.tone_phases, 0, 0)
    IN  IF gen.config.num_tones = 1
        THEN [gen    |-> [gen EXCEPT !.phase =
                            Wrap(gen.phase + PhaseStep(2 * gen.config.frequency,
                                                       gen.config.sample_rate)),
                                     !.tone_phases = r.tone_phases],
              sample |-> fmul(gen.config.amplitude, SinCycle(gen.phase))]
        ELSE [gen    |-> [gen EXCEPT !.tone_phases = r.tone_phases],
              sample |-> r.sample]

\* SignalGenerator::next_sample: the generator after the call and the sample
next_sample(gen) ==
    IF gen.config.num_tones = 1
    THEN [gen    |-> [gen EXCEPT !.phase =
                        Wrap(gen.phase + PhaseStep(2 * gen.config.frequency,
                                                   gen.config.sample_rate))],
          sample |-> fmul(gen.config.amplitude, SinCycle(gen.phase))]
    ELSE LET r == ToneLoop(gen.config, gen.tone_phases, 0, 0)
         IN  [gen    |-> [gen EXCEPT !.tone_phases = r.tone_phases],
              sample |-> r.sample]

\* SignalGenerator::generate_buffer on a buffer of n slots, from slot k on:
\* the generator after it and the buffer written
RECURSIVE BufferLoop(_, _, _)
BufferLoop(gen, buffer, k) ==
    IF k > Len(buffer) THEN [gen |-> gen, buffer |-> buffer]
    ELSE LET r == next_sample(gen)
         IN  BufferLoop(r.gen, [buffer EXCEPT ![k] = r.sample], k + 1)

\* every slot computed from the state the call started in
generate_buffer_Unthreaded(gen, n) ==
    [gen |-> next_sample(gen).gen, buffer |-> [k \in 1..n |-> next_sample(gen).sample]]

generate_buffer(gen, n) == BufferLoop(gen, [k \in 1..n |-> 0], 1)

\* the tone bank left as it was
update_config_KeepBank(gen, config) ==
    [gen EXCEPT !.config = config, !.phase = 0]

\* the master phase left as it was
update_config_KeepPhase(gen, config) ==
    [gen EXCEPT !.config = config, !.tone_phases = Zeros(config.num_tones)]

\* SignalGenerator::update_config
update_config(gen, config) ==
    LET g1 == [gen EXCEPT !.config = config]
        g2 == [g1 EXCEPT !.tone_phases = Zeros(g1.config.num_tones)]
    IN  [g2 EXCEPT !.phase = 0]

\* the samples of n successive next_sample() calls from gen0, and the
\* generator they leave
\* (each state is computed, as the one element of a set, before the next call)
RECURSIVE StateAfterCalls(_, _)
StateAfterCalls(gen0, n) ==
    IF n = 0 THEN gen0
    ELSE CHOOSE r \in {StateAfterCalls(x, n - 1) : x \in {next_sample(gen0).gen}} : TRUE

SamplesOfCalls(gen0, n) ==
    [k \in 1..n |-> next_sample(StateAfterCalls(gen0, k - 1)).sample]

----------------------------------------------------------------------------
(* The stand-alone generator: configurations and calls *)

\* amplitudes 0.25, 0.4 and 1.0 on the grid
Amp025 == Unit \div 4
Amp040 == RoundDiv(4 * Unit, 10)
Amp100 == Unit

GenConfigs ==
    { SignalConfig(1000, 48000, Amp100, 1, 0),       \* the spec's periodicity example
      SignalConfig(23000, 48000, Amp025, 3, 300),    \* SignalConfig::default()
      SignalConfig(12000, 48000, Amp040, 3, 0),      \* three tones in phase
      SignalConfig(12000, 48000, Amp100, 1, 0),      \* a quarter of the sample rate
      SignalConfig(12000, 48000, Amp100, 2, 8000),   \* tones at 8 kHz and 16 kHz
      SignalConfig(50000, 48000, Amp025, 1, 0),      \* frequency above the sample rate
      SignalConfig(1000, 48000, Amp025, 3, 2000) }   \* lowest tone below 0 Hz

\* every phase accumulator is within MaxCycles cycles of 0
InRange(gen) ==
    /\ Abs(gen.phase) <= MaxCycles * Unit
    /\ \A i \in DOMAIN gen.tone_phases : Abs(gen.tone_phases[i]) <= MaxCycles * Unit

GenInit ==
    /\ \E c \in GenConfigs : g = SignalGenerator_new(c) /\ arg = c
    /\ out = <<>>
    /\ prev = g
    /\ op = "new"

GenNextSample ==
    LET r == next_sample(g)
    IN  /\ InRange(r.gen)
        /\ g' = r.gen
        /\ out' = <<r.sample>>
        /\ prev' = g
        /\ op' = "next_sample"
        /\ UNCHANGED arg
        /\ UNCHANGED <<svars, dvars, hvars, cbstart, mvars, log>>

GenGenerateBuffer ==
    \E n \in 0..MaxBuf :
        LET r == generate_buffer(g, n)
        IN  /\ InRange(r.gen)
            /\ g' = r.gen
            /\ out' = r.buffer
            /\ prev' = g
            /\ op' = "generate_buffer"
            /\ UNCHANGED arg
            /\ UNCHANGED <<svars, dvars, hvars, cbstart, mvars, log>>

GenUpdateConfig ==
    \E c \in GenConfigs :
        /\ g' = update_config(g, c)
        /\ out' = <<>>
        /\ prev' = g
        /\ op' = "update_config"
        /\ arg' = c
        /\ UNCHANGED <<svars, dvars, hvars, cbstart, mvars, log>>


----------------------------------------------------------------------------
(* jammer.rs: the cpal host and its streams *)

\* cpal::default_host().default_output_device() with its
\* default_output_config(): no device, a device that gives no default
\* config, or a device's native rate and channels
Hosts ==
    { [present |-> FALSE, supported |-> FALSE, sample_rate |-> 0, channels |-> 0],
      [present |-> TRUE, supported |-> FALSE, sample_rate |-> 0, channels |-> 0],
      [present |-> TRUE, supported |-> TRUE, sample_rate |-> 48000, channels |-> 2],
      [present |-> TRUE, supported |-> TRUE, sample_rate |-> 24000, channels |-> 1] }

\* the host of a jammer that was never created
NoHost == [present |-> FALSE, supported |-> FALSE, sample_rate |-> 0, channels |-> 0]

\* the configs callers hand to SpeakerJammer::new / SystemJammer::new
JamConfigs ==
    { SignalConfig(12000, 48000, Amp040, 3, 0),
      SignalConfig(6000, 44100, Amp100, 1, 0),
      SignalConfig(23000, 48000, Amp025, 0, 300) }   \* no tones

Kinds == {"speaker", "system"}

Streams == 1..MaxStreams

\* the control thread, and the audio thread that runs stream s's callback
CtlThread == <<"ctl", 0>>
CbThread(s) == <<"cb", s>>

\* a callback that is not running
CbIdle == [pc |-> "idle", left |-> 0, data |-> <<>>]

\* the generator of a jammer that was never created
NoGenerator == SignalGenerator_new(SignalConfig(0, 0, 0, 0, 0))

\* what a callback that is not running found
NoCbStart == [frames |-> 0, gen |-> NoGenerator]

\* the streams built so far
Built == {s \in Streams : st[s] # "unbuilt"}

\* the streams the device is running
Playing == {s \in Streams : st[s] = "playing"}

\* new with the caller's sample rate left in the signal config
SpeakerJammer_new_KeepRate(signal_config, h) ==
    IF ~h.present
    THEN [ok |-> FALSE, error |-> "NoDevice", generator |-> NoGenerator, stream |-> 0,
          config |-> [sample_rate |-> 0, channels |-> 0]]
    ELSE IF ~h.supported
    THEN [ok |-> FALSE, error |-> "DefaultStreamConfigError",
          generator |-> NoGenerator, stream |-> 0,
          config |-> [sample_rate |-> 0, channels |-> 0]]
    ELSE [ok |-> TRUE, error |-> "Ok",
          generator |-> SignalGenerator_new(signal_config),
          stream |-> 0,
          config |-> [sample_rate |-> h.sample_rate, channels |-> h.channels]]

\* SpeakerJammer::new
SpeakerJammer_new(signal_config, h) ==
    IF ~h.present
    THEN [ok |-> FALSE, error |-> "NoDevice", generator |-> NoGenerator, stream |-> 0,
          config |-> [sample_rate |-> 0, channels |-> 0]]
    ELSE IF ~h.supported
    THEN [ok |-> FALSE, error |-> "DefaultStreamConfigError",
          generator |-> NoGenerator, stream |-> 0,
          config |-> [sample_rate |-> 0, channels |-> 0]]
    ELSE [ok |-> TRUE, error |-> "Ok",
          generator |-> SignalGenerator_new(
                            [signal_config EXCEPT !.sample_rate = h.sample_rate]),
          stream |-> 0,
          config |-> [sample_rate |-> h.sample_rate, channels |-> h.channels]]

\* the mix_ratio field of a jammer that has none
NoMixRatio == -1

\* the mix ratios callers ask for: 0.5 (main's default) and 0.25
MixRatios == {Unit \div 2, Unit \div 4}

\* a system jammer that scales its signal by mix_ratio
SystemJammer_new_Mixed(signal_config, ratio, h) ==
    LET r == SpeakerJammer_new(
                 [signal_config EXCEPT !.amplitude = fmul(@, ratio)], h)
    IN  [ok |-> r.ok, error |-> r.error, generator |-> r.generator,
         stream |-> r.stream, config |-> r.config,
         mix_ratio |-> IF r.ok THEN ratio ELSE NoMixRatio]

\* SystemJammer::new: the speaker_jammer field's parts, and mix_ratio
SystemJammer_new(signal_config, ratio, h) ==
    LET r == SpeakerJammer_new(signal_config, h)
    IN  [ok |-> r.ok, error |-> r.error, generator |-> r.generator,
         stream |-> r.stream, config |-> r.config,
         mix_ratio |-> IF r.ok THEN ratio ELSE NoMixRatio]

\* what new() logs: the debug line of SystemJammer::new, then the info lines
\* of SpeakerJammer::new as far as it gets
NewLog(k, h) ==
    (IF k = "system" THEN {"Creating system jammer with mix ratio"} ELSE {})
        \cup (IF h.present THEN {"Using audio device"} ELSE {})
        \cup (IF h.present /\ h.supported THEN {"Default output config"} ELSE {})

JamInit ==
    \E k \in Kinds, c \in JamConfigs, h \in Hosts :
      \E m \in (IF k = "system" THEN MixRatios ELSE {NoMixRatio}) :
        LET r == IF k = "system" THEN SystemJammer_new(c, m, h)
                 ELSE SpeakerJammer_new(c, h)
        IN  /\ kind = k
            /\ mix_ratio = IF k = "system" THEN r.mix_ratio ELSE NoMixRatio
            /\ generator = r.generator
            /\ dev = r.config
            /\ stream = r.stream
            /\ pc = IF r.ok THEN "idle" ELSE "none"
            /\ result = r.error
            /\ host = h
            /\ requested = c
            /\ log = NewLog(k, h)
            /\ cbstart = [s \in Streams |-> NoCbStart]
            /\ lock = {}
            /\ poisoned = FALSE
            /\ st = [s \in Streams |-> "unbuilt"]
            /\ cb = [s \in Streams |-> CbIdle]
            /\ local = 0
            /\ joining = 0
            /\ cont = "idle"
            /\ lastcall = "new"
            /\ entry = 0
            /\ epoch = 0

----------------------------------------------------------------------------
(* jammer.rs: SpeakerJammer::start, also behind SystemJammer::start *)

\* start() that makes a generator of its own for the new stream
StartBuild_FreshGenerator ==
    /\ pc = "idle"
    /\ Cardinality(Built) < MaxStreams
    /\ lock = {}
    /\ lastcall' = "start"
    /\ entry' = stream
    /\ \/ /\ result' = "BuildStreamError"
          /\ UNCHANGED <<pc, st, local>>
       \/ /\ st' = [st EXCEPT ![Cardinality(Built) + 1] = "paused"]
          /\ local' = Cardinality(Built) + 1
          /\ pc' = "start_play"
          /\ UNCHANGED result
    /\ generator' = SignalGenerator_new(generator.config)
    /\ UNCHANGED <<kind, lock, dev, stream, cb, joining, cont, epoch>>
    /\ log' = IF kind = "system"
              THEN log \cup {"Starting system jammer (mix ratio)"}
              ELSE log
    /\ UNCHANGED <<gvars, dvars, poisoned, hvars, cbstart, mvars>>

\* device.build_output_stream(..)?: the device rejects the stream, or a new
\* stream exists, not yet told to play
StartBuild ==
    /\ pc = "idle"
    /\ Cardinality(Built) < MaxStreams
    /\ lastcall' = "start"
    /\ entry' = stream
    /\ \/ /\ result' = "BuildStreamError"
          /\ UNCHANGED <<pc, st, local>>
       \/ /\ st' = [st EXCEPT ![Cardinality(Built) + 1] = "paused"]
          /\ local' = Cardinality(Built) + 1
          /\ pc' = "start_play"
          /\ UNCHANGED result
    /\ UNCHANGED <<kind, generator, lock, dev, stream, cb, joining, cont, epoch>>
    /\ log' = IF kind = "system"
              THEN log \cup {"Starting system jammer (mix ratio)"}
              ELSE log
    /\ UNCHANGED <<gvars, dvars, poisoned, hvars, cbstart, mvars>>

\* the play step with the handle stored before play() is tried
StartPlay_StoreFirst ==
    /\ pc = "start_play"
    /\ stream = 0
    /\ \/ /\ st' = [st EXCEPT ![local] = "playing"]
          /\ result' = "Ok"
       \/ /\ result' = "PlayStreamError"
          /\ UNCHANGED st
    /\ stream' = local
    /\ local' = 0
    /\ pc' = "idle"
    /\ UNCHANGED <<kind, generator, lock, dev, cb, joining, cont, lastcall, entry, epoch>>
    /\ UNCHANGED <<gvars, dvars, poisoned, hvars, cbstart, mvars, log>>

\* stream.play()?: the stream runs, or play fails and start returns the
\* error, dropping its local stream
StartPlay ==
    /\ pc = "start_play"
    /\ \/ /\ st' = [st EXCEPT ![local] = "playing"]
          /\ pc' = "start_assign"
          /\ UNCHANGED <<local, joining>>
       \/ /\ st' = [st EXCEPT ![local] = "stopping"]
          /\ joining' = local
          /\ local' = 0
          /\ pc' = "start_fail_join"
    /\ UNCHANGED <<kind, generator, lock, dev, stream, cb, cont, lastcall, entry,
                   result, epoch>>
    /\ UNCHANGED <<gvars, dvars, poisoned, hvars, cbstart, mvars, log>>

\* the stream that failed to play left in self.stream
StartFailJoin_KeepHandle ==
    /\ pc = "start_fail_join"
    /\ cb[joining].pc = "idle"
    /\ st' = [st EXCEPT ![joining] = "dropped"]
    /\ stream' = joining
    /\ joining' = 0
    /\ result' = "PlayStreamError"
    /\ pc' = "idle"
    /\ UNCHANGED <<kind, generator, lock, dev, cb, local, cont, lastcall,
                   entry, epoch>>
    /\ UNCHANGED <<gvars, dvars, poisoned, hvars, cbstart, mvars, log>>

\* the drop of the stream that failed to play returns, and start with it
StartFailJoin ==
    /\ pc = "start_fail_join"
    /\ cb[joining].pc = "idle"
    /\ st' = [st EXCEPT ![joining] = "dropped"]
    /\ joining' = 0
    /\ result' = "PlayStreamError"
    /\ pc' = "idle"
    /\ UNCHANGED <<kind, generator, lock, dev, stream, cb, local, cont, lastcall,
                   entry, epoch>>
    /\ UNCHANGED <<gvars, dvars, poisoned, hvars, cbstart, mvars, log>>

\* self.stream = Some(stream): the value self.stream held is dropped first
StartAssign ==
    /\ pc = "start_assign"
    /\ IF stream = 0
       THEN /\ stream' = local
            /\ local' = 0
            /\ result' = "Ok"
            /\ pc' = "idle"
            /\ log' = log \cup {"Speaker jammer started"}
            /\ UNCHANGED <<st, joining>>
       ELSE /\ st' = [st EXCEPT ![stream] = "stopping"]
            /\ joining' = stream
            /\ pc' = "start_drop_old"
            /\ UNCHANGED <<stream, local, result, log>>
    /\ UNCHANGED <<kind, generator, lock, dev, cb, cont, lastcall, entry, epoch>>
    /\ UNCHANGED <<gvars, dvars, poisoned, hvars, cbstart, mvars>>

\* the drop of the replaced stream returns, the new one is stored, Ok(())
StartDropOld ==
    /\ pc = "start_drop_old"
    /\ cb[joining].pc = "idle"
    /\ st' = [st EXCEPT ![joining] = "dropped"]
    /\ joining' = 0
    /\ stream' = local
    /\ local' = 0
    /\ result' = "Ok"
    /\ pc' = "idle"
    /\ UNCHANGED <<kind, generator, lock, dev, cb, cont, lastcall, entry, epoch>>
    /\ log' = log \cup {"Speaker jammer started"}
    /\ UNCHANGED <<gvars, dvars, poisoned, hvars, cbstart, mvars>>

----------------------------------------------------------------------------
(* jammer.rs: SpeakerJammer::stop, SystemJammer::stop and the Drop impls *)

\* stop with the stream taken but never dropped
SpeakerJammer_stop_Forget(str, states) ==
    [stream |-> 0, st |-> states, joining |-> 0, result |-> "Ok"]

\* stop that takes the stream for granted
SpeakerJammer_stop_Unwrap(str, states) ==
    IF str # 0
    THEN [stream |-> 0, st |-> [states EXCEPT ![str] = "stopping"],
          joining |-> str, result |-> "Ok"]
    ELSE [stream |-> 0, st |-> states, joining |-> 0, result |-> "Panic"]

\* SpeakerJammer::stop up to the point where drop(stream) waits:
\* self.stream.take(), and for Some(stream) the stream told to stop
SpeakerJammer_stop(str, states) ==
    IF str # 0
    THEN [stream |-> 0, st |-> [states EXCEPT ![str] = "stopping"],
          joining |-> str, result |-> "Ok"]
    ELSE [stream |-> 0, st |-> states, joining |-> 0, result |-> "Ok"]

\* SystemJammer::stop
SystemJammer_stop(str, states) == SpeakerJammer_stop(str, states)

\* a call of stop() that goes on at `next` when it returns
CallStop(next) ==
    LET r == IF kind = "system" THEN SystemJammer_stop(stream, st)
             ELSE SpeakerJammer_stop(stream, st)
    IN  /\ stream' = r.stream
        /\ st' = r.st
        /\ joining' = r.joining
        /\ cont' = next
        /\ IF r.joining # 0
           THEN pc' = "stop_join" /\ UNCHANGED result
           ELSE pc' = next /\ result' = r.result

\* stop() that takes the generator's lock and keeps it while the stream is
\* dropped
Stop_HoldLock ==
    /\ pc = "idle"
    /\ lock = {}
    /\ lock' = IF stream # 0 THEN {CtlThread} ELSE lock
    /\ lastcall' = "stop"
    /\ entry' = stream
    /\ CallStop("idle")
    /\ UNCHANGED <<kind, generator, dev, cb, local, epoch>>
    /\ UNCHANGED <<gvars, dvars, poisoned, hvars, cbstart, mvars, log>>

\* the caller calls stop()
Stop ==
    /\ pc = "idle"
    /\ lastcall' = "stop"
    /\ entry' = stream
    /\ CallStop("idle")
    /\ UNCHANGED <<kind, generator, lock, dev, cb, local, epoch>>
    /\ UNCHANGED <<gvars, dvars, poisoned, hvars, cbstart, mvars, log>>

\* drop(stream) returns once the stream's audio thread has stopped, and
\* stop() with it
StopJoin ==
    /\ pc = "stop_join"
    /\ cb[joining].pc = "idle"
    /\ st' = [st EXCEPT ![joining] = "dropped"]
    /\ joining' = 0
    /\ result' = "Ok"
    /\ pc' = cont
    /\ UNCHANGED <<kind, generator, lock, dev, stream, cb, local, cont, lastcall,
                   entry, epoch>>
    /\ log' = log \cup {"Speaker jammer stopped"}
    /\ UNCHANGED <<gvars, dvars, poisoned, hvars, cbstart, mvars>>

\* a jammer dropped with its stream left as it is
Drop_NoStop ==
    /\ pc = "idle"
    /\ lastcall' = "drop"
    /\ entry' = stream
    /\ pc' = "dropped"
    /\ UNCHANGED <<kind, generator, lock, dev, stream, st, cb, local, joining, cont,
                   result, epoch>>
    /\ UNCHANGED <<gvars, dvars, poisoned, hvars, cbstart, mvars, log>>

\* the jammer is dropped: Drop for SpeakerJammer, or Drop for SystemJammer
\* and then the drop of its speaker_jammer field
Drop ==
    /\ pc = "idle"
    /\ lastcall' = "drop"
    /\ entry' = stream
    /\ CallStop(IF kind = "system" THEN "drop_inner" ELSE "dropped")
    /\ UNCHANGED <<kind, generator, lock, dev, cb, local, epoch>>
    /\ UNCHANGED <<gvars, dvars, poisoned, hvars, cbstart, mvars, log>>

\* Drop for SpeakerJammer, on the field of a dropped SystemJammer
DropInner ==
    /\ pc = "drop_inner"
    /\ CallStop("dropped")
    /\ UNCHANGED <<kind, generator, lock, dev, cb, local, lastcall, entry, epoch>>
    /\ UNCHANGED <<gvars, dvars, poisoned, hvars, cbstart, mvars, log>>

----------------------------------------------------------------------------
(* jammer.rs: the data callback start() hands to build_output_stream *)

\* the audio thread of a running stream calls the callback on a buffer of
\* `frames` frames
CbInvoke(s) ==
    /\ st[s] = "playing"
    /\ cb[s].pc = "idle"
    /\ \E frames \in 1..MaxFrames :
           cb' = [cb EXCEPT ![s] = [pc |-> "wait", left |-> frames, data |-> <<>>]]
    /\ UNCHANGED <<pc, kind, generator, lock, dev, stream, st, local, joining, cont,
                   lastcall, entry, result, epoch>>
    /\ UNCHANGED <<gvars, dvars, poisoned, hvars, cbstart, mvars, log>>

\* let mut gen = generator.lock().unwrap(), and data.chunks_mut(channels)
CbLock(s) ==
    /\ cb[s].pc = "wait"
    /\ lock = {}
    /\ IF poisoned
       THEN \* lock() gives Err(PoisonError) and unwrap() panics
            /\ cb' = [cb EXCEPT ![s].pc = "panicked"]
            /\ UNCHANGED <<lock, poisoned, cbstart>>
       ELSE IF dev.channels = 0
       THEN \* chunks_mut(0) panics, and the guard is dropped in the unwinding
            /\ cb' = [cb EXCEPT ![s].pc = "panicked"]
            /\ poisoned' = TRUE
            /\ UNCHANGED <<lock, cbstart>>
       ELSE /\ lock' = {CbThread(s)}
            /\ cb' = [cb EXCEPT ![s].pc = "run"]
            /\ cbstart' = [cbstart EXCEPT ![s] = [frames |-> cb[s].left, gen |-> generator]]
            /\ UNCHANGED poisoned
    /\ UNCHANGED <<pc, kind, generator, dev, stream, st, local, joining, cont,
                   lastcall, entry, result, epoch>>
    /\ UNCHANGED <<gvars, dvars, hvars, mvars, log>>

\* one frame written, and the lock given up until the next frame
CbFrame_Relock(s) ==
    /\ cb[s].pc = "run"
    /\ cb[s].left > 0
    /\ LET r == next_sample(generator)
       IN  /\ generator' = r.gen
           /\ cb' = [cb EXCEPT
                       ![s].left = @ - 1,
                       ![s].pc = IF cb[s].left > 1 THEN "wait" ELSE "run",
                       ![s].data = Append(@, [frame |-> [c \in 1..dev.channels |-> r.sample],
                                              epoch |-> epoch])]
    /\ lock' = IF cb[s].left > 1 THEN {} ELSE lock
    /\ UNCHANGED <<pc, kind, dev, stream, st, local, joining, cont,
                   lastcall, entry, result, epoch>>
    /\ UNCHANGED <<gvars, dvars, poisoned, hvars, cbstart, mvars, log>>

\* one turn with a sample of its own for every channel of the frame
CbFrame_PerChannel(s) ==
    /\ cb[s].pc = "run"
    /\ cb[s].left > 0
    /\ LET r == generate_buffer(generator, dev.channels)
       IN  /\ generator' = r.gen
           /\ cb' = [cb EXCEPT
                       ![s].left = @ - 1,
                       ![s].data = Append(@, [frame |-> r.buffer, epoch |-> epoch])]
    /\ UNCHANGED <<pc, kind, lock, dev, stream, st, local, joining, cont,
                   lastcall, entry, result, epoch>>
    /\ UNCHANGED <<gvars, dvars, poisoned, hvars, cbstart, mvars, log>>

\* one turn in which a generator without tones makes the thread panic
CbFrame_PanicNoTones(s) ==
    /\ cb[s].pc = "run"
    /\ cb[s].left > 0
    /\ IF generator.config.num_tones = 0
       THEN /\ cb' = [cb EXCEPT ![s].pc = "panicked"]
            /\ lock' = lock \ {CbThread(s)}
            /\ poisoned' = TRUE
            /\ UNCHANGED generator
       ELSE LET r == next_sample(generator)
            IN  /\ generator' = r.gen
                /\ cb' = [cb EXCEPT
                            ![s].left = @ - 1,
                            ![s].data = Append(@, [frame |-> [c \in 1..dev.channels |-> r.sample],
                                                   epoch |-> epoch])]
                /\ UNCHANGED <<lock, poisoned>>
    /\ UNCHANGED <<pc, kind, dev, stream, st, local, joining, cont,
                   lastcall, entry, result, epoch>>
    /\ UNCHANGED <<gvars, dvars, hvars, cbstart, mvars, log>>

\* one turn of `for frame in data.chunks_mut(channels)`: the next sample,
\* written to every channel of the frame
CbFrame(s) ==
    /\ cb[s].pc = "run"
    /\ cb[s].left > 0
    /\ LET r == next_sample(generator)
       IN  /\ generator' = r.gen
           /\ cb' = [cb EXCEPT
                       ![s].left = @ - 1,
                       ![s].data = Append(@, [frame |-> [c \in 1..dev.channels |-> r.sample],
                                              epoch |-> epoch])]
    /\ UNCHANGED <<pc, kind, lock, dev, stream, st, local, joining, cont,
                   lastcall, entry, result, epoch>>
    /\ UNCHANGED <<gvars, dvars, poisoned, hvars, cbstart, mvars, log>>

\* the closure returns with the guard still held
CbReturn_KeepLock(s) ==
    /\ cb[s].pc = "run"
    /\ cb[s].left = 0
    /\ cb' = [cb EXCEPT ![s] = CbIdle]
    /\ cbstart' = [cbstart EXCEPT ![s] = NoCbStart]
    /\ UNCHANGED <<pc, kind, generator, lock, dev, stream, st, local, joining, cont,
                   lastcall, entry, result, epoch>>
    /\ UNCHANGED <<gvars, dvars, poisoned, hvars, mvars, log>>

\* the buffer is full: the closure returns and the guard is dropped
CbReturn(s) ==
    /\ cb[s].pc = "run"
    /\ cb[s].left = 0
    /\ lock' = lock \ {CbThread(s)}
    /\ cb' = [cb EXCEPT ![s] = CbIdle]
    /\ cbstart' = [cbstart EXCEPT ![s] = NoCbStart]
    /\ UNCHANGED <<pc, kind, generator, dev, stream, st, local, joining, cont,
                   lastcall, entry, result, epoch>>
    /\ UNCHANGED <<gvars, dvars, poisoned, hvars, mvars, log>>

----------------------------------------------------------------------------
(* Reconfiguration of a jammer's generator from the control thread *)

\* the control thread asks for the generator's lock
ReconfRequest ==
    /\ pc = "idle"
    /\ epoch < MaxReconfig
    /\ pc' = "reconf_wait"
    /\ lastcall' = "reconfigure"
    /\ entry' = stream
    /\ UNCHANGED <<kind, generator, lock, dev, stream, st, cb, local, joining, cont,
                   result, epoch>>
    /\ UNCHANGED <<gvars, dvars, poisoned, hvars, cbstart, mvars, log>>

\* the control thread takes the generator's lock
ReconfLock ==
    /\ pc = "reconf_wait"
    /\ lock = {}
    /\ lock' = {CtlThread}
    /\ pc' = "reconf"
    /\ UNCHANGED <<kind, generator, dev, stream, st, cb, local, joining, cont,
                   lastcall, entry, result, epoch>>
    /\ UNCHANGED <<gvars, dvars, poisoned, hvars, cbstart, mvars, log>>

\* update_config under the lock, at the device's sample rate; the lock is
\* given up
ReconfApply ==
    /\ pc = "reconf"
    /\ \E c \in JamConfigs :
           generator' = update_config(generator, [c EXCEPT !.sample_rate = dev.sample_rate])
    /\ epoch' = epoch + 1
    /\ lock' = lock \ {CtlThread}
    /\ result' = "Ok"
    /\ pc' = "idle"
    /\ UNCHANGED <<kind, dev, stream, st, cb, local, joining, cont, lastcall,
                   entry>>
    /\ UNCHANGED <<gvars, dvars, poisoned, hvars, cbstart, mvars, log>>

----------------------------------------------------------------------------
(* main.rs: main, run_speaker_jammer and run_system_jammer *)

\* the arguments given on the command line; 23000, 0.25, 3 and 300 are the
\* defaults.  The spreads are even, so that every frequency main computes is
\* a whole number of Hz; --spread is an f32 and may be negative
CliFrequencies == {19000, 20100, 22000, 23000, 30000}
CliAmplitudes == {Amp025, Amp040, Amp100}
CliNumTones == {0, 1, 2, 3, 5}
CliSpreads == {-2000, 300, 400, 2000}

CliArgs ==
    [frequency : CliFrequencies, amplitude : CliAmplitudes,
     num_tones : CliNumTones, spread : CliSpreads]

\* Mode::Speaker and Mode::System
Modes == {"speaker", "system"}

\* the default output devices main may find
CliHosts ==
    Hosts \cup {[present |-> TRUE, supported |-> TRUE, sample_rate |-> 44100, channels |-> 2]}

\* let mut config = SignalConfig { .. }
BuildConfig(args) ==
    SignalConfig(args.frequency, 48000, args.amplitude, args.num_tones, args.spread)

\* min_freq that leaves the two outer tones out
MainMinFreq_Narrow(config) ==
    2 * config.frequency - (config.num_tones - 2) * config.frequency_spread

\* twice min_freq: frequency - (num_tones as f32 / 2.0) * frequency_spread
MainMinFreq(config) ==
    2 * config.frequency - config.num_tones * config.frequency_spread

\* twice max_freq: frequency + (num_tones as f32 / 2.0) * frequency_spread
MainMaxFreq(config) ==
    2 * config.frequency + config.num_tones * config.frequency_spread

\* needed_frequency: 20000.0 + (num_tones as f32 / 2.0) * frequency_spread + 500.0
NeededFrequency(config) ==
    20000 + (config.num_tones * config.frequency_spread) \div 2 + 500

\* the validation that pulls the tones together instead of raising the base
main_validate_Squeeze(config) ==
    [config   |-> IF MainMinFreq(config) < 2 * 20000
                  THEN [config EXCEPT !.frequency_spread = 0,
                                      !.frequency = IF @ < 20000 THEN 20000 ELSE @]
                  ELSE config,
     min_freq |-> MainMinFreq(config),
     max_freq |-> MainMaxFreq(config),
     warnings |->
         (IF config.amplitude > Amp040 THEN {"amplitude"} ELSE {})
         \cup (IF MainMinFreq(config) < 2 * 20000 THEN {"below_20k"} ELSE {})
         \cup (IF MainMaxFreq(config) > 2 * 24000 /\ config.sample_rate = 48000
               THEN {"nyquist"} ELSE {})]

\* the validation with the amplitude brought down to 0.4
main_validate_Clamp(config) ==
    [config   |-> [config EXCEPT !.amplitude = IF @ > Amp040 THEN Amp040 ELSE @],
     min_freq |-> MainMinFreq(config),
     max_freq |-> MainMaxFreq(config),
     warnings |-> IF config.amplitude > Amp040 THEN {"amplitude"} ELSE {}]

\* main from the amplitude warning to the Nyquist warning: the config it
\* leaves, its min_freq and max_freq (doubled) and the warnings printed
main_validate(config) ==
    [config   |-> IF MainMinFreq(config) < 2 * 20000
                  THEN [config EXCEPT !.frequency = NeededFrequency(config)]
                  ELSE config,
     min_freq |-> MainMinFreq(config),
     max_freq |-> MainMaxFreq(config),
     warnings |->
         (IF config.amplitude > Amp040 THEN {"amplitude"} ELSE {})
         \cup (IF MainMinFreq(config) < 2 * 20000 THEN {"below_20k"} ELSE {})
         \cup (IF MainMaxFreq(config) > 2 * 24000 /\ config.sample_rate = 48000
               THEN {"nyquist"} ELSE {})]

\* main after Cli::parse() and the construction of `config`
CliInit ==
    /\ cli \in CliArgs
    /\ mode \in Modes
    /\ main_config = BuildConfig(cli)
    /\ min_freq = 0
    /\ max_freq = 0
    /\ warnings = {}
    /\ mainpc = "validate"

\* main's warnings and its adjustment of config.frequency
MainValidate ==
    /\ mainpc = "validate"
    /\ LET r == main_validate(main_config)
       IN  /\ main_config' = r.config
           /\ min_freq' = r.min_freq
           /\ max_freq' = r.max_freq
           /\ warnings' = r.warnings
    /\ mainpc' = "dispatch"
    /\ UNCHANGED <<cli, mode>>
    /\ UNCHANGED <<gvars, dvars, svars, hvars, cbstart, log>>

\* SpeakerJammer::new(config)? or SystemJammer::new(config, mix_ratio)?
MainNew ==
    /\ mainpc = "dispatch"
    /\ \E h \in CliHosts :
         \E m \in (IF mode = "system" THEN MixRatios ELSE {NoMixRatio}) :
           LET r == IF mode = "system" THEN SystemJammer_new(main_config, m, h)
                    ELSE SpeakerJammer_new(main_config, h)
           IN  /\ kind' = mode
               /\ mix_ratio' = IF mode = "system" THEN r.mix_ratio ELSE NoMixRatio
               /\ generator' = r.generator
               /\ dev' = r.config
               /\ stream' = r.stream
               /\ pc' = IF r.ok THEN "idle" ELSE "none"
               /\ result' = r.error
               /\ host' = h
               /\ requested' = main_config
               /\ log' = log \cup {IF mode = "system" THEN "=== System Jammer Mode ==="
                                    ELSE "=== Speaker Jammer Mode ==="}
                              \cup NewLog(mode, h)
               /\ mainpc' = IF r.ok THEN "running" ELSE "exit"
    /\ lastcall' = "new"
    /\ poisoned' = FALSE
    /\ UNCHANGED <<lock, st, cb, local, joining, cont, entry, epoch>>
    /\ UNCHANGED <<cli, mode, main_config, min_freq, max_freq, warnings>>
    /\ UNCHANGED <<gvars, dvars, cbstart>>

\* jammer.start()?
MainStart ==
    /\ mainpc = "running"
    /\ lastcall = "new"
    /\ StartBuild

\* what run_speaker_jammer / run_system_jammer prints once start() has
\* returned Ok
ActiveText(m) ==
    IF m = "system"
    THEN {"System jammer is now active!",
          "Ultrasonic signal is being mixed with system audio.",
          "Note: Full virtual audio device support requires platform-specific implementation."}
    ELSE {"Speaker jammer is now active!",
          "Ultrasonic signal is being transmitted through your speakers."}

\* start() returned Ok: the println!s that follow it
MainActive ==
    /\ mainpc = "running"
    /\ pc = "idle"
    /\ lastcall = "start"
    /\ result = "Ok"
    /\ ~(ActiveText(mode) \subseteq log)
    /\ log' = log \cup ActiveText(mode)
    /\ UNCHANGED <<gvars, dvars, svars, hvars, cbstart, mvars>>

\* wait_for_enter() returns; jammer.stop()
MainStop ==
    /\ mainpc = "running"
    /\ lastcall = "start"
    /\ result = "Ok"
    /\ ActiveText(mode) \subseteq log
    /\ Stop

\* stop() returned: println!("Jammer stopped.")
MainStopped ==
    /\ mainpc = "running"
    /\ pc = "idle"
    /\ lastcall = "stop"
    /\ "Jammer stopped." \notin log
    /\ log' = log \cup {"Jammer stopped."}
    /\ UNCHANGED <<gvars, dvars, svars, hvars, cbstart, mvars>>

\* the function returns, with start()'s error or after stop(), and the
\* jammer goes out of scope
MainExit ==
    /\ mainpc = "running"
    /\ \/ lastcall = "start" /\ result # "Ok"
       \/ lastcall = "stop" /\ "Jammer stopped." \in log
    /\ Drop

\* the generator has produced fewer than MaxCliSamples samples
FewSamples ==
    \E k \in 0..(MaxCliSamples - 1) :
        generator = StateAfterCalls(SignalGenerator_new(generator.config), k)

\* the device calls the stream's callback while main waits
MainCallback(s) ==
    /\ mainpc = "running"
    /\ FewSamples
    /\ CbInvoke(s)

----------------------------------------------------------------------------
(* daemon.rs and main.rs: run_daemon_command *)

Starters == 1..MaxStarters

Stoppers == 1..MaxStoppers

\* no file at get_pid_file()
NoPidFile == [exists |-> FALSE, content |-> 0]

\* the file as File::create leaves it inside fs::write: there, and empty
EmptyPidFile == [exists |-> TRUE, content |-> 0]

\* the file once fs::write has written pid.to_string()
PidFileOf(pid) == [exists |-> TRUE, content |-> pid]

\* an invocation of `daemon start` that has not been made
NoStarter == [pc |-> "none", child |-> "none", found |-> {}]

\* an invocation of `daemon stop` that has not been made
NoStopper == [pc |-> "none", saw |-> "none", pid |-> 0, signalled |-> {},
              killed |-> FALSE, result |-> "none"]

\* the process libc::fork() gave to invocation i has the process id i; it
\* lives from the fork until it fails or is killed
Alive == {i \in Starters : dstart[i].child \in {"save", "write", "new", "start", "hosting"}}

\* the daemon processes that host a started jammer
Hosting == {i \in Starters : dstart[i].child = "hosting"}

\* pid_str.trim().parse::<i32>() is Ok: the empty file does not parse
ValidPid(file) == file.exists /\ file.content > 0

\* is_running() that trusts the file without asking for the process
is_running_FileOnly(file, alive) == file.exists

\* is_running(): the file is read, parsed, and `kill -0 pid` succeeds
is_running(file, alive) == ValidPid(file) /\ file.content \in alive

\* get_status()
get_status(file, alive) ==
    IF is_running(file, alive)
    THEN IF file.exists THEN "Running (PID)" ELSE "Running"
    ELSE "Stopped"

\* `daemon start`: if is_running() { .. return Ok(()) }
DaemonStartCheck(i) ==
    /\ dstart[i].pc = "check"
    /\ dstart' = [dstart EXCEPT
                    ![i].pc = IF is_running(pidfile, Alive) THEN "refused" ELSE "fork",
                    ![i].found = Hosting]
    /\ UNCHANGED <<pidfile, dstop>>
    /\ UNCHANGED <<gvars, svars, hvars, cbstart, mvars, log>>

\* libc::fork(): it fails and the command bails, or the parent prints the
\* child's pid and returns while the child goes on to save_pid()
DaemonStartFork(i) ==
    /\ dstart[i].pc = "fork"
    /\ \/ dstart' = [dstart EXCEPT ![i].pc = "fork_failed"]
       \/ dstart' = [dstart EXCEPT ![i].pc = "returned", ![i].child = "save"]
    /\ UNCHANGED <<pidfile, dstop>>
    /\ UNCHANGED <<gvars, svars, hvars, cbstart, mvars, log>>

\* save_pid(), first half of fs::write: the file is created or truncated
SavePidCreate(i) ==
    /\ dstart[i].child = "save"
    /\ pidfile' = EmptyPidFile
    /\ dstart' = [dstart EXCEPT ![i].child = "write"]
    /\ UNCHANGED dstop
    /\ UNCHANGED <<gvars, svars, hvars, cbstart, mvars, log>>

\* save_pid(), second half of fs::write: std::process::id() is written
SavePidWrite(i) ==
    /\ dstart[i].child = "write"
    /\ pidfile' = IF pidfile.exists THEN PidFileOf(i) ELSE pidfile
    /\ dstart' = [dstart EXCEPT ![i].child = "new"]
    /\ UNCHANGED dstop
    /\ UNCHANGED <<gvars, svars, hvars, cbstart, mvars, log>>

\* SpeakerJammer::new(config)? or SystemJammer::new(config, 0.5)? in the
\* child: on an error the child ends
DaemonJammerNew(i) ==
    /\ dstart[i].child = "new"
    /\ \E h \in Hosts, c \in JamConfigs :
           dstart' = [dstart EXCEPT ![i].child =
                        IF SpeakerJammer_new(c, h).ok THEN "start" ELSE "exited"]
    /\ UNCHANGED <<pidfile, dstop>>
    /\ UNCHANGED <<gvars, svars, hvars, cbstart, mvars, log>>

\* jammer.start()? in the child, and then the endless sleep loop
DaemonJammerStart(i) ==
    /\ dstart[i].child = "start"
    /\ \E r \in {"Ok", "BuildStreamError", "PlayStreamError"} :
           dstart' = [dstart EXCEPT ![i].child = IF r = "Ok" THEN "hosting" ELSE "exited"]
    /\ UNCHANGED <<pidfile, dstop>>
    /\ UNCHANGED <<gvars, svars, hvars, cbstart, mvars, log>>

\* stop_daemon(): if !pid_file.exists() { .. return Ok(()) }
StopDaemonExists(j) ==
    /\ dstop[j].pc = "exists"
    /\ dstop' = [dstop EXCEPT ![j] =
                   IF pidfile.exists
                   THEN [@ EXCEPT !.pc = "read"]
                   ELSE [@ EXCEPT !.pc = "done", !.saw = "absent", !.result = "Ok"]]
    /\ UNCHANGED <<pidfile, dstart>>
    /\ UNCHANGED <<gvars, svars, hvars, cbstart, mvars, log>>

\* fs::read_to_string(&pid_file)? and pid_str.trim().parse::<i32>()?
StopDaemonRead(j) ==
    /\ dstop[j].pc = "read"
    /\ dstop' = [dstop EXCEPT ![j] =
                   IF ~pidfile.exists
                   THEN [@ EXCEPT !.pc = "done", !.saw = "unreadable",
                                  !.result = "Failed to read PID file"]
                   ELSE IF ~ValidPid(pidfile)
                   THEN [@ EXCEPT !.pc = "done", !.saw = "invalid",
                                  !.result = "Invalid PID in file"]
                   ELSE [@ EXCEPT !.pc = "kill", !.saw = "valid",
                                  !.pid = pidfile.content]]
    /\ UNCHANGED <<pidfile, dstart>>
    /\ UNCHANGED <<gvars, svars, hvars, cbstart, mvars, log>>

\* stop_daemon() that gives up, with Ok, when `kill` reports a failure
StopDaemonKill_GiveUp(j) ==
    /\ dstop[j].pc = "kill"
    /\ LET pid == dstop[j].pid
       IN  IF pid \in Alive
           THEN /\ dstart' = [dstart EXCEPT ![pid].child = "killed"]
                /\ dstop' = [dstop EXCEPT ![j].pc = "remove", ![j].killed = TRUE,
                                          ![j].signalled = @ \cup {pid}]
           ELSE /\ dstop' = [dstop EXCEPT ![j].pc = "done", ![j].result = "Ok",
                                          ![j].signalled = @ \cup {pid}]
                /\ UNCHANGED dstart
    /\ UNCHANGED pidfile
    /\ UNCHANGED <<gvars, svars, hvars, cbstart, mvars, log>>

\* Command::new("kill").arg(pid).output()?: SIGTERM ends the process of
\* that id; with no such process kill fails, which is only logged
StopDaemonKill(j) ==
    /\ dstop[j].pc = "kill"
    /\ LET pid == dstop[j].pid
       IN  IF pid \in Alive
           THEN /\ dstart' = [dstart EXCEPT ![pid].child = "killed"]
                /\ dstop' = [dstop EXCEPT ![j].pc = "remove", ![j].killed = TRUE,
                                          ![j].signalled = @ \cup {pid}]
           ELSE /\ dstop' = [dstop EXCEPT ![j].pc = "remove",
                                          ![j].signalled = @ \cup {pid}]
                /\ UNCHANGED dstart
    /\ UNCHANGED pidfile
    /\ UNCHANGED <<gvars, svars, hvars, cbstart, mvars, log>>

\* remove_pid()? and Ok(())
StopDaemonRemove(j) ==
    /\ dstop[j].pc = "remove"
    /\ pidfile' = NoPidFile
    /\ dstop' = [dstop EXCEPT ![j].pc = "done", ![j].result = "Ok"]
    /\ UNCHANGED dstart
    /\ UNCHANGED <<gvars, svars, hvars, cbstart, mvars, log>>

----------------------------------------------------------------------------
(* Specifications *)

\* the stand-alone generator while a jammer is followed
GenAtRest ==
    /\ g = NoGenerator
    /\ out = <<>>
    /\ prev = NoGenerator
    /\ op = "none"
    /\ arg = NoGenerator.config

\* the jammer while the stand-alone generator is followed
JamAtRest ==
    /\ pc = "none"
    /\ kind = "speaker"
    /\ generator = NoGenerator
    /\ lock = {}
    /\ poisoned = FALSE
    /\ dev = [sample_rate |-> 0, channels |-> 0]
    /\ stream = 0
    /\ st = [s \in Streams |-> "unbuilt"]
    /\ cb = [s \in Streams |-> CbIdle]
    /\ local = 0
    /\ joining = 0
    /\ cont = "idle"
    /\ lastcall = "none"
    /\ entry = 0
    /\ result = "none"
    /\ epoch = 0
    /\ host = NoHost
    /\ requested = NoGenerator.config
    /\ mix_ratio = NoMixRatio
    /\ cbstart = [s \in Streams |-> NoCbStart]
    /\ log = {}

\* main while the generator or the jammer is used as a library
MainAtRest ==
    /\ mainpc = "none"
    /\ cli = [frequency |-> 0, amplitude |-> 0, num_tones |-> 0, spread |-> 0]
    /\ mode = "none"
    /\ main_config = NoGenerator.config
    /\ min_freq = 0
    /\ max_freq = 0
    /\ warnings = {}

\* no daemon command is running
DaemonAtRest ==
    /\ pidfile = NoPidFile
    /\ dstart = [i \in Starters |-> NoStarter]
    /\ dstop = [j \in Stoppers |-> NoStopper]

Init == JamInit /\ GenAtRest /\ MainAtRest /\ DaemonAtRest

Next ==
    \/ StartBuild
    \/ StartPlay
    \/ StartFailJoin
    \/ StartAssign
    \/ StartDropOld
    \/ Stop
    \/ StopJoin
    \/ Drop
    \/ DropInner
    \/ ReconfRequest
    \/ ReconfLock
    \/ ReconfApply
    \/ \E s \in Streams : CbInvoke(s)
    \/ \E s \in Streams : CbLock(s)
    \/ \E s \in Streams : CbFrame(s)
    \/ \E s \in Streams : CbReturn(s)

Spec == Init /\ [][Next]_vars

\* the threads are scheduled fairly: a thread that can go on does (the drop
\* of a stream returns once its audio thread is done), a running stream's
\* callback is called again, and a thread that waits for the lock gets it if
\* it is free again and again
Fairness ==
    /\ WF_vars(ReconfApply)
    /\ SF_vars(ReconfLock)
    /\ WF_vars(StopJoin)
    /\ \A s \in Streams :
           /\ WF_vars(CbInvoke(s))
           /\ SF_vars(CbLock(s))
           /\ WF_vars(CbFrame(s))
           /\ WF_vars(CbReturn(s))

\* a system jammer created on the 48000 Hz stereo device
InitFair ==
    /\ Init
    /\ kind = "system"
    /\ mix_ratio = Unit \div 2
    /\ host = [present |-> TRUE, supported |-> TRUE, sample_rate |-> 48000, channels |-> 2]

SpecFair == InitFair /\ [][Next]_vars /\ Fairness

GenNext == GenNextSample \/ GenGenerateBuffer \/ GenUpdateConfig

InitGen == GenInit /\ JamAtRest /\ MainAtRest /\ DaemonAtRest

SpecGen == InitGen /\ [][GenNext]_vars

InitCli == CliInit /\ GenAtRest /\ JamAtRest /\ DaemonAtRest

NextCli ==
    \/ MainValidate
    \/ MainNew
    \/ MainStart
    \/ StartPlay
    \/ StartFailJoin
    \/ StartAssign
    \/ MainActive
    \/ MainStop
    \/ StopJoin
    \/ MainStopped
    \/ MainExit
    \/ DropInner
    \/ \E s \in Streams : MainCallback(s)
    \/ \E s \in Streams : CbLock(s)
    \/ \E s \in Streams : CbFrame(s)
    \/ \E s \in Streams : CbReturn(s)

SpecCli == InitCli /\ [][NextCli]_vars

\* the daemon commands: no daemon and no PID file yet, and every invocation
\* of `daemon start` and `daemon stop` still to be made
DaemonInit ==
    /\ pidfile = NoPidFile
    /\ dstart = [i \in Starters |-> [NoStarter EXCEPT !.pc = "check"]]
    /\ dstop = [j \in Stoppers |-> [NoStopper EXCEPT !.pc = "exists"]]

InitDaemon == DaemonInit /\ GenAtRest /\ JamAtRest /\ MainAtRest

NextDaemon ==
    \/ \E i \in Starters : DaemonStartCheck(i)
    \/ \E i \in Starters : DaemonStartFork(i)
    \/ \E i \in Starters : SavePidCreate(i)
    \/ \E i \in Starters : SavePidWrite(i)
    \/ \E i \in Starters : DaemonJammerNew(i)
    \/ \E i \in Starters : DaemonJammerStart(i)
    \/ \E j \in Stoppers : StopDaemonExists(j)
    \/ \E j \in Stoppers : StopDaemonRead(j)
    \/ \E j \in Stoppers : StopDaemonKill(j)
    \/ \E j \in Stoppers : StopDaemonRemove(j)

SpecDaemon == InitDaemon /\ [][NextDaemon]_vars

----------------------------------------------------------------------------
(* Claims about the stand-alone generator, checked under SpecGen *)

Produced == op \in {"next_sample", "generate_buffer"}

\* C1 as stated: every sample produced by next_sample() / generate_buffer()
\* lies in [-amplitude, +amplitude].
C1_SampleWithinAmplitude ==
    Produced => \A k \in DOMAIN out : Abs(out[k]) <= g.config.amplitude

\* C1 amended: a single-tone sample lies in [-amplitude, +amplitude]; a
\* multi-tone sample is bounded by num_tones times the rounded
\* amplitude / num_tones, which is over amplitude by at most half a rounding
\* unit per tone.
C1_SampleWithinRoundedAmplitude ==
    Produced =>
        \A k \in DOMAIN out :
            IF g.config.num_tones = 1
            THEN Abs(out[k]) <= g.config.amplitude
            ELSE /\ Abs(out[k]) <= g.config.num_tones * AmplitudePerTone(g.config)
                 /\ 2 * Abs(out[k]) <= 2 * g.config.amplitude + g.config.num_tones

\* all tones of a multi-tone generator at their peak at once
C1_Witness ==
    /\ Produced
    /\ g.config.num_tones > 1
    /\ \E k \in DOMAIN out :
           Abs(out[k]) = g.config.num_tones * AmplitudePerTone(g.config)

\* C2: generate_buffer on n slots writes the samples of n successive
\* next_sample() calls in order and leaves the generator those calls leave;
\* on 0 slots it leaves the generator as it was.
C2_BufferEqualsCalls ==
    op = "generate_buffer" =>
        /\ out = SamplesOfCalls(prev, Len(out))
        /\ g = StateAfterCalls(prev, Len(out))
        /\ (Len(out) = 0 => g = prev)

C2_Witness ==
    /\ op = "generate_buffer"
    /\ Len(out) >= 2
    /\ out[1] # out[2]
    /\ g # prev

\* C3: after update_config(c) the generator is the one SignalGenerator::new(c)
\* builds, whatever it was before, and both produce the same samples from
\* there on.
C3_UpdateConfigIsNew ==
    op = "update_config" =>
        /\ g = SignalGenerator_new(arg)
        /\ generate_buffer(g, MaxBuf) = generate_buffer(SignalGenerator_new(arg), MaxBuf)

C3_Witness ==
    /\ op = "update_config"
    /\ prev.phase # 0
    /\ arg.num_tones > 1
    /\ arg # prev.config

\* sample_rate is a whole multiple of frequency
Periodic(config) ==
    /\ config.frequency > 0
    /\ config.sample_rate % config.frequency = 0

\* the calls that make one cycle of a Periodic config
Period(config) == config.sample_rate \div config.frequency

\* how far apart two phases are on the cycle
CycDist(a, b) ==
    LET d == (a - b) % Unit
    IN  IF 2 * d > Unit THEN Unit - d ELSE d

\* C14 as stated: a fresh single-tone generator gives 0 as its first sample,
\* and when sample_rate = P * frequency the phase after P calls equals the
\* phase before them, so that sample P equals sample 0.
C14_PhasePeriodic ==
    (op # "none" /\ g.config.num_tones = 1 /\ Periodic(g.config)) =>
        LET after == StateAfterCalls(g, Period(g.config))
        IN  /\ g = SignalGenerator_new(g.config) => next_sample(g).sample = 0
            /\ after.phase = g.phase
            /\ next_sample(after).sample = next_sample(g).sample

\* C14 amended: a fresh single-tone generator gives 0 as its first sample;
\* when sample_rate = P * frequency the phase after P calls is within the
\* rounding accumulated over P steps (half a unit a step) of the phase before
\* them; it is the same phase, and sample P is sample 0, when P steps make
\* exactly one cycle; for 1000 Hz at 48000 Hz they fall short of one cycle,
\* and the phase of a fresh generator has not wrapped after 48 calls.
C14_PhaseNearlyPeriodic ==
    (op # "none" /\ g.config.num_tones = 1 /\ Periodic(g.config)) =>
        LET P == Period(g.config)
            step == PhaseStep(2 * g.config.frequency, g.config.sample_rate)
            after == StateAfterCalls(g, P)
        IN  /\ g = SignalGenerator_new(g.config) => next_sample(g).sample = 0
            /\ 2 * CycDist(after.phase, g.phase) <= P
            /\ P * step = Unit =>
                   /\ after.phase = g.phase
                   /\ next_sample(after).sample = next_sample(g).sample
            /\ (g.phase = 0 /\ P * step < Unit) =>
                   /\ after.phase = P * step
                   /\ after.phase # g.phase

\* 48 calls after a fresh start at 1000 Hz and 48000 Hz
C14_Witness ==
    /\ op = "next_sample"
    /\ g.config = SignalConfig(1000, 48000, Amp100, 1, 0)
    /\ g.phase = 48 * PhaseStep(2000, 48000)
    /\ g.phase < Unit
    /\ g.phase > Unit - 48

\* C15: in multi-tone mode every call advances tone i's phase by the step of
\* the frequency base + (i - (num_tones - 1)/2) * spread; these frequencies
\* are symmetric around the base, and for 3 tones, base 23000 and spread 300
\* they are 22700, 23000 and 23300 Hz.
C15_ToneFrequencies ==
    LET c == g.config
        n == c.num_tones
    IN  n > 1 =>
            /\ \A i \in 0..(n - 1) :
                   /\ ToneFreq2(c, i) + ToneFreq2(c, n - 1 - i) = 4 * c.frequency
                   /\ 2 * ToneFreq2(c, i) =
                          4 * c.frequency + (4 * i - 2 * (n - 1)) * c.frequency_spread
            /\ (op = "next_sample" /\ prev.config = c) =>
                   \A i \in 0..(n - 1) :
                       g.tone_phases[i + 1] =
                           Wrap(prev.tone_phases[i + 1]
                                + RoundDiv((2 * c.frequency
                                            + (2 * i - (n - 1)) * c.frequency_spread) * Unit,
                                           2 * c.sample_rate))
            /\ (n = 3 /\ c.frequency = 23000 /\ c.frequency_spread = 300) =>
                   /\ ToneFreq2(c, 0) = 2 * 22700
                   /\ ToneFreq2(c, 1) = 2 * 23000
                   /\ ToneFreq2(c, 2) = 2 * 23300
                   /\ op = "next_sample" =>
                          /\ g.tone_phases[1] =
                                 Wrap(prev.tone_phases[1] + PhaseStep(2 * 22700, c.sample_rate))
                          /\ g.tone_phases[2] =
                                 Wrap(prev.tone_phases[2] + PhaseStep(2 * 23000, c.sample_rate))
                          /\ g.tone_phases[3] =
                                 Wrap(prev.tone_phases[3] + PhaseStep(2 * 23300, c.sample_rate))

C15_Witness ==
    /\ op = "next_sample"
    /\ g.config = SignalConfig(23000, 48000, Amp025, 3, 300)
    /\ prev.tone_phases[1] # 0
    /\ g.tone_phases[1] # g.tone_phases[2]
    /\ g.tone_phases[2] # g.tone_phases[3]
    /\ g.tone_phases[1] < prev.tone_phases[1]

\* every tone the config synthesizes is at 0 Hz or above and below the sample
\* rate
TonesWithinRate(config) ==
    IF config.num_tones = 1
    THEN 0 <= config.frequency /\ config.frequency < config.sample_rate
    ELSE \A i \in 0..(config.num_tones - 1) :
             /\ 0 <= ToneFreq2(config, i)
             /\ ToneFreq2(config, i) < 2 * config.sample_rate

\* the master phase and every phase of the bank are in [0, 1)
PhasesInCycle(gen) ==
    /\ 0 <= gen.phase /\ gen.phase < Unit
    /\ \A i \in DOMAIN gen.tone_phases :
           0 <= gen.tone_phases[i] /\ gen.tone_phases[i] < Unit

\* C26: in every state of a generator whose tones are all in
\* [0, sample_rate), after new(), update_config() and any next_sample()
\* calls, the master phase and every phase of the tone bank are in [0, 1).
C26_PhasesInUnitInterval == TonesWithinRate(g.config) => PhasesInCycle(g)

\* one tone of a bank has just wrapped and another has not
C26_Witness ==
    /\ op = "next_sample"
    /\ TonesWithinRate(g.config)
    /\ g.config.num_tones = 3
    /\ g.tone_phases[3] < prev.tone_phases[3]
    /\ g.tone_phases[1] > prev.tone_phases[1]
    /\ prev.tone_phases[3] + PhaseStep(ToneFreq2(g.config, 2), g.config.sample_rate) >= Unit

\* C27: the tone bank always has config.num_tones entries, after new() and
\* after every update_config(), also one that changes num_tones; next_sample()
\* and generate_buffer() never change its length.
C27_BankSized ==
    /\ [](/\ Len(g.tone_phases) = g.config.num_tones
           /\ DOMAIN g.tone_phases = 1..g.config.num_tones)
    /\ [][op' \in {"next_sample", "generate_buffer"} =>
              Len(g'.tone_phases) = Len(g.tone_phases)]_vars

\* update_config() has resized a bank that next_sample() had advanced
C27_Witness ==
    /\ op = "update_config"
    /\ Len(prev.tone_phases) = 3
    /\ Len(g.tone_phases) = 2
    /\ prev.tone_phases # Zeros(3)

\* C28: next_sample() produces one sample and leaves the config alone; in
\* multi-tone mode tone i's phase becomes its old phase plus the step of its
\* own frequency, wrapped once, whatever the other tones' phases are, and the
\* master phase stays; in single-tone mode the master phase advances by the
\* step of the base frequency and the bank stays; with every tone in
\* [0, sample_rate) the phases stay in [0, 1).
C28_IndependentAdvance ==
    op = "next_sample" =>
        LET c == prev.config
            n == c.num_tones
        IN  /\ Len(out) = 1
            /\ g.config = c
            /\ n = 1 =>
                   /\ g.phase = Wrap(prev.phase + PhaseStep(2 * c.frequency, c.sample_rate))
                   /\ g.tone_phases = prev.tone_phases
            /\ n # 1 =>
                   /\ g.phase = prev.phase
                   /\ \A i \in 1..n :
                          /\ g.tone_phases[i] =
                                 Wrap(prev.tone_phases[i]
                                      + PhaseStep(ToneFreq2(c, i - 1), c.sample_rate))
                          /\ \A j \in (1..n) \ {i} :
                                 next_sample([prev EXCEPT !.tone_phases[j] = 0]).gen.tone_phases[i]
                                     = g.tone_phases[i]
            /\ (TonesWithinRate(c) /\ PhasesInCycle(prev)) => PhasesInCycle(g)

\* the tones at 8 kHz and 16 kHz: the second has wrapped, the first has not
C28_Witness ==
    /\ op = "next_sample"
    /\ g.config = SignalConfig(12000, 48000, Amp100, 2, 8000)
    /\ g.tone_phases[2] < prev.tone_phases[2]
    /\ g.tone_phases[1] > prev.tone_phases[1]
    /\ g.tone_phases[1] # g.tone_phases[2]

----------------------------------------------------------------------------
(* Claims about the jammer, checked under Spec *)

\* a stream that does not exist (any more)
Gone(s) == st[s] \in {"unbuilt", "dropped"}

\* the threads that hold a guard on the generator
InGenerator ==
    {CbThread(s) : s \in {x \in Streams : cb[x].pc = "run"}}
        \cup (IF pc = "reconf" THEN {CtlThread} ELSE {})

\* some callback has advanced the jammer's generator
Advanced == generator # SignalGenerator_new(generator.config)

\* C4: start() on a jammer whose stream is present returns an AlreadyActive
\* error and leaves the jammer and its stream as they were.
C4_StartOnActiveRejected ==
    (pc = "idle" /\ lastcall = "start" /\ entry # 0) =>
        /\ result = "AlreadyActive"
        /\ stream = entry
        /\ st[entry] = "playing"

\* C5: at most one stream of a jammer is playing at any time.
C5_AtMostOnePlaying == Cardinality(Playing) <= 1

\* C6: once stop() has returned, the stream it took is torn down and its
\* callback is not running, and the callback of a torn-down stream is never
\* invoked again.
C6_NoCallbackAfterStop ==
    /\ []((pc = "idle" /\ lastcall = "stop" /\ entry # 0) =>
              (st[entry] = "dropped" /\ cb[entry] = CbIdle))
    /\ [][\A s \in Streams :
              st[s] = "dropped" => (st'[s] = "dropped" /\ cb'[s] = CbIdle)]_vars

C6_Witness ==
    /\ pc = "idle"
    /\ lastcall = "stop"
    /\ entry # 0
    /\ st[entry] = "dropped"
    /\ Advanced

\* C7: stop() never fails and leaves the jammer without a stream; stop() on a
\* jammer without a stream returns at once and changes nothing, so a second
\* stop() leaves what the first left.
C7_StopIdempotent ==
    /\ []((pc = "idle" /\ lastcall = "stop") => (stream = 0 /\ result = "Ok"))
    /\ [][(Stop /\ stream = 0) =>
              /\ pc' = "idle"
              /\ result' = "Ok"
              /\ UNCHANGED <<kind, generator, lock, dev, stream, st, cb, local,
                             joining, epoch>>]_vars

C7_Witness ==
    /\ pc = "idle"
    /\ lastcall = "stop"
    /\ entry = 0
    /\ result = "Ok"
    /\ \E s \in Streams : st[s] = "dropped"
    /\ Advanced

\* C8: when a jammer of either kind has been dropped, it has no stream, no
\* stream it built is left and no callback runs or runs again; dropping a
\* jammer without a stream changes nothing.
C8_DropStops ==
    /\ [](pc = "dropped" =>
              /\ stream = 0
              /\ lock = {}
              /\ \A s \in Streams : Gone(s) /\ cb[s] = CbIdle)
    /\ [][pc = "dropped" => UNCHANGED svars]_vars
    /\ [][(Drop /\ stream = 0) =>
              UNCHANGED <<kind, generator, lock, dev, stream, st, cb, local,
                          joining, epoch>>]_vars

C8_Witness ==
    /\ pc = "dropped"
    /\ kind = "system"
    /\ entry # 0
    /\ st[entry] = "dropped"
    /\ Advanced

\* C9: between calls the jammer is Idle (no stream handle, no stream left,
\* no callback) or Active (a handle to the one stream there is, playing); the
\* handle never holds a stream that is paused or failed to play; it appears
\* only when start() returns Ok and goes only in stop() or drop.
C9_IdleOrActive ==
    /\ [](pc = "idle" =>
              IF stream = 0
              THEN \A s \in Streams : Gone(s) /\ cb[s] = CbIdle
              ELSE /\ st[stream] = "playing"
                   /\ \A s \in Streams \ {stream} : Gone(s) /\ cb[s] = CbIdle)
    /\ [](stream # 0 => st[stream] \in {"playing", "stopping"})
    /\ [][(stream = 0 /\ stream' # 0) =>
              /\ lastcall = "start"
              /\ pc' = "idle"
              /\ result' = "Ok"
              /\ st'[stream'] = "playing"]_vars
    /\ [][(stream # 0 /\ stream' = 0) => lastcall' \in {"stop", "drop"}]_vars

C9_Witness ==
    /\ pc = "idle"
    /\ lastcall = "start"
    /\ result = "PlayStreamError"
    /\ stream = 0
    /\ \E s \in Streams : st[s] = "dropped"

\* C10: the samples of one callback buffer are all computed between the same
\* two reconfigurations, and at most one thread holds the generator at a time.
C10_ReconfigAtomic ==
    /\ \A s \in Streams :
           \A i, j \in DOMAIN cb[s].data : cb[s].data[i].epoch = cb[s].data[j].epoch
    /\ Cardinality(InGenerator) <= 1
    /\ Cardinality(lock) <= 1

C10_Witness ==
    \E s \in Streams :
        /\ st[s] = "playing"
        /\ lastcall = "reconfigure"
        /\ entry = s
        /\ cb[s].pc = "run"
        /\ cb[s].left = 0
        /\ Len(cb[s].data) >= 2
        /\ cb[s].data[1].epoch >= 1

\* C11: creation without an output device fails with the no-device error and
\* leaves no jammer and no stream; a start() that fails in
\* build_output_stream or in play() returns that error, distinct from the
\* no-device error, and leaves self.stream as it was at the call: an Idle
\* jammer stays Idle with no stream left, an Active one keeps its stream.
C11_StartFailsCleanly ==
    /\ (lastcall = "new" /\ ~host.present) =>
           /\ pc = "none"
           /\ result = "NoDevice"
    /\ pc = "none" =>
           /\ stream = 0
           /\ generator = NoGenerator
           /\ \A s \in Streams : st[s] = "unbuilt" /\ cb[s] = CbIdle
    /\ (pc = "idle" /\ lastcall = "start") =>
           result \in {"Ok", "BuildStreamError", "PlayStreamError"}
    /\ (pc = "idle" /\ lastcall = "start" /\ result # "Ok") =>
           /\ stream = entry
           /\ entry = 0 => \A s \in Streams : Gone(s) /\ cb[s] = CbIdle
           /\ entry # 0 => st[entry] = "playing"

C11_Witness ==
    /\ pc = "idle"
    /\ lastcall = "start"
    /\ result = "PlayStreamError"
    /\ entry = 0
    /\ stream = 0
    /\ st[1] = "dropped"
    /\ st[2] = "dropped"

\* C12: a jammer that was created runs its generator at the device's native
\* sample rate, whatever rate the caller asked for, and with the caller's
\* frequency, amplitude, num_tones and frequency_spread.
C12_DeviceSampleRate ==
    pc # "none" =>
        /\ host.present
        /\ dev.sample_rate = host.sample_rate
        /\ dev.channels = host.channels
        /\ generator.config.sample_rate = host.sample_rate
        /\ epoch = 0 =>
               /\ generator.config.frequency = requested.frequency
               /\ generator.config.amplitude = requested.amplitude
               /\ generator.config.num_tones = requested.num_tones
               /\ generator.config.frequency_spread = requested.frequency_spread

C12_Witness ==
    /\ pc = "idle"
    /\ epoch = 0
    /\ requested.sample_rate = 44100
    /\ host.sample_rate = 24000
    /\ stream # 0
    /\ Advanced

\* C13: a callback on a buffer of F frames has, after k frames, advanced the
\* generator by k next_sample() calls from the state it found and written
\* call i's sample to every channel of frame i; it ends after F frames.
C13_CallbackFillsFrames ==
    \A s \in Streams :
        cb[s].pc = "run" =>
            LET k == Len(cb[s].data)
                gen0 == cbstart[s].gen
            IN  /\ k + cb[s].left = cbstart[s].frames
                /\ generator = StateAfterCalls(gen0, k)
                /\ \A i \in 1..k :
                       /\ DOMAIN cb[s].data[i].frame = 1..dev.channels
                       /\ \A c \in 1..dev.channels :
                              cb[s].data[i].frame[c] = SamplesOfCalls(gen0, k)[i]

C13_Witness ==
    \E s \in Streams :
        /\ cb[s].pc = "run"
        /\ cb[s].left = 0
        /\ dev.channels = 2
        /\ Len(cb[s].data) = 2
        /\ cb[s].data[1].frame # cb[s].data[2].frame
        /\ cbstart[s].gen # SignalGenerator_new(generator.config)

\* C23: a SystemJammer is created, stopped and dropped as the SpeakerJammer
\* it wraps: creation gives the generator, stream config, handle and error
\* SpeakerJammer::new gives for the same config and host, whatever the
\* mix_ratio; its generator runs the config asked for, unscaled; stop() and
\* drop do to the stream what SpeakerJammer::stop does; and the drop of its
\* inner jammer that follows changes nothing.
C23_SystemAsSpeaker ==
    /\ []((kind = "system" /\ lastcall = "new") =>
              LET r == SpeakerJammer_new(requested, host)
              IN  /\ generator = r.generator
                  /\ dev = r.config
                  /\ stream = r.stream
                  /\ result = r.error
                  /\ (pc = "idle") = r.ok
                  /\ (pc = "none") = ~r.ok)
    /\ []((kind = "system" /\ pc # "none" /\ epoch = 0) =>
              generator.config = [requested EXCEPT !.sample_rate = host.sample_rate])
    /\ [][((Stop \/ Drop) /\ kind = "system") =>
              LET r == SpeakerJammer_stop(stream, st)
              IN  /\ stream' = r.stream
                  /\ st' = r.st
                  /\ joining' = r.joining
                  /\ UNCHANGED <<generator, lock, cb, dev>>]_vars
    /\ [][DropInner =>
              /\ pc' = "dropped"
              /\ UNCHANGED <<generator, lock, dev, stream, st, cb, joining, result>>]_vars

\* a system jammer with a mix ratio of 0.25 that played, was stopped by its
\* drop and is gone
C23_Witness ==
    /\ kind = "system"
    /\ mix_ratio = Unit \div 4
    /\ pc = "dropped"
    /\ lastcall = "drop"
    /\ entry # 0
    /\ st[entry] = "dropped"
    /\ Advanced

\* C25: while a stream is playing and the generator is not reconfigured,
\* every advance of the generator is one next_sample() call of that stream's
\* own callback, whose sample goes into that stream's buffer: between two of
\* its callbacks the generator stays as the first one left it, and no other
\* stream takes a sample.
C25_PhaseContinuity ==
    [][\A s \in Streams :
          (/\ st[s] = "playing"
           /\ st'[s] = "playing"
           /\ epoch' = epoch
           /\ generator' # generator) =>
              /\ cb[s].pc = "run"
              /\ Len(cb'[s].data) = Len(cb[s].data) + 1
              /\ generator' = next_sample(generator).gen]_vars

\* C29: a callback holds the generator's lock exactly while it produces its
\* buffer and has given it up when it returns; under fair scheduling a
\* control thread that waits for the lock to reconfigure gets it and
\* completes, and a callback that waits for the lock gets it; after a
\* reconfiguration under a playing stream the stream's callback holds the
\* lock again, on the reconfigured generator, unless the stream is stopped
\* first.
C29_LockPerBuffer ==
    /\ [](\A s \in Streams : (CbThread(s) \in lock) <=> (cb[s].pc = "run"))
    /\ [][\A s \in Streams :
              (cb[s].pc = "run" /\ cb'[s].pc = "idle") =>
                  (cb[s].left = 0 /\ CbThread(s) \notin lock')]_vars
    /\ (pc = "reconf_wait") ~> (pc = "reconf")
    /\ (pc = "reconf") ~> (pc = "idle" /\ lastcall = "reconfigure" /\ lock # {CtlThread})
    /\ \A s \in Streams : (cb[s].pc = "wait") ~> (cb[s].pc = "run")
    /\ \A s \in Streams :
           (pc = "reconf" /\ st[s] = "playing" /\ stream = s) ~>
               \/ st[s] # "playing"
               \/ /\ pc # "reconf"
                  /\ epoch >= 1
                  /\ cb[s].pc = "run"
                  /\ cbstart[s].gen.config = generator.config

\* a reconfiguration asked for under a playing stream is done, and the
\* stream's callback holds the lock again on the reconfigured generator
C29_Witness ==
    /\ pc = "idle"
    /\ lastcall = "reconfigure"
    /\ epoch = 1
    /\ entry # 0
    /\ st[entry] = "playing"
    /\ cb[entry].pc = "run"
    /\ lock = {CbThread(entry)}
    /\ Len(cb[entry].data) = 1
    /\ cbstart[entry].gen = SignalGenerator_new(generator.config)

\* C30: no callback ever panics and the generator's mutex is never poisoned,
\* whatever the config (also one without tones) and whatever the control
\* thread and other callbacks do meanwhile; a callback that asked for the
\* lock goes on to fill its buffer, and when it returns it has written every
\* frame of the buffer.
C30_CallbackNeverFails ==
    /\ [](~poisoned)
    /\ [](\A s \in Streams : cb[s].pc \in {"idle", "wait", "run"})
    /\ [][\A s \in Streams :
              /\ (cb[s].pc = "wait" /\ cb'[s].pc # "wait") => cb'[s].pc = "run"
              /\ (cb[s].pc = "run" /\ cb'[s].pc # "run") =>
                     /\ cb'[s].pc = "idle"
                     /\ cb[s].left = 0
                     /\ Len(cb[s].data) = cbstart[s].frames]_vars

\* a callback has filled its buffer from a generator without tones while a
\* second stream of the jammer plays
C30_Witness ==
    \E s \in Streams :
        /\ generator.config.num_tones = 0
        /\ Cardinality(Playing) = 2
        /\ cb[s].pc = "run"
        /\ cb[s].left = 0
        /\ Len(cb[s].data) = 2
        /\ \A i \in 1..2 : \A c \in 1..dev.channels : cb[s].data[i].frame[c] = 0

\* C31: stop() takes no lock of the generator and always returns: a stop()
\* that waits for its stream to be dropped, also one called while the
\* stream's callback holds the lock and fills a buffer, comes back with the
\* session idle (no stream held, none playing), under fair scheduling
C31_StopTerminates ==
    /\ [](pc = "stop_join" => CtlThread \notin lock)
    /\ (pc = "stop_join" /\ lastcall = "stop")
           ~> (pc = "idle" /\ lastcall = "stop" /\ result = "Ok"
                 /\ stream = 0 /\ joining = 0 /\ Playing = {})

\* stop() waits for a stream whose callback holds the lock in mid-buffer
C31_Witness ==
    /\ pc = "stop_join"
    /\ lastcall = "stop"
    /\ joining # 0
    /\ lock = {CbThread(joining)}
    /\ cb[joining].pc = "run"
    /\ cb[joining].left > 0
    /\ cb[joining].data # <<>>

\* C32: the generator is made once, in new(): start() and stop() never
\* build, replace or reset it.  Its config is the one new() gave it (the
\* requested one at the device's rate) for as long as the session is not
\* reconfigured, its state changes only by a sample a callback takes under
\* the lock (or in a reconfiguration), and the sample a callback writes is
\* computed from the state the sample before left, also when the stream is
\* a new one started after a stop()
C32_GeneratorKept ==
    /\ [](pc # "none" /\ epoch = 0
            => generator.config = [requested EXCEPT !.sample_rate = dev.sample_rate])
    /\ [][generator'.config # generator.config => pc = "reconf"]_vars
    /\ [][generator' # generator
            => \/ pc = "reconf"
               \/ \E s \in Streams :
                      /\ cb[s].pc = "run"
                      /\ lock = {CbThread(s)}
                      /\ generator' = next_sample(generator).gen
                      /\ Len(cb'[s].data) = Len(cb[s].data) + 1
                      /\ cb'[s].data[Len(cb'[s].data)].frame
                            = [c \in 1..dev.channels |-> next_sample(generator).sample]]_vars

\* a stream started after stop() writes its samples from phases that the
\* stopped stream left, not from zero
C32_Witness ==
    /\ pc = "idle"
    /\ lastcall = "start"
    /\ entry = 0
    /\ epoch = 0
    /\ \E old, new \in Streams :
           /\ old # new
           /\ st[old] = "dropped"
           /\ stream = new
           /\ st[new] = "playing"
           /\ cb[new].pc = "run"
           /\ Len(cb[new].data) = 1
           /\ cbstart[new].gen # SignalGenerator_new(generator.config)
           /\ cb[new].data[1].frame
                 = [c \in 1..dev.channels |-> next_sample(cbstart[new].gen).sample]

----------------------------------------------------------------------------
(* Claims about main, checked under SpecCli *)

\* main has validated its config
Validated == mainpc \in {"dispatch", "running", "exit"}

\* a config with no tones or no sample rate
Invalid(config) == config.num_tones = 0 \/ config.sample_rate = 0

\* the claims' min_tone and max_tone, doubled: base -/+ (tone_count / 2) *
\* spacing with the whole-number half of tone_count (2 for 5 tones)
ClaimMinTone(config) ==
    2 * config.frequency - 2 * (config.num_tones \div 2) * config.frequency_spread

ClaimMaxTone(config) ==
    2 * config.frequency + 2 * (config.num_tones \div 2) * config.frequency_spread

\* C16: a config without tones (or without a sample rate) is rejected with a
\* ConfigurationError when main validates it: main ends with that error, and
\* no generator and no stream ever exists for it.
C16_InvalidConfigRejected ==
    (Validated /\ Invalid(main_config)) =>
        /\ mainpc = "exit"
        /\ result = "ConfigurationError"
        /\ pc = "none"
        /\ generator = NoGenerator
        /\ \A s \in Streams : st[s] = "unbuilt" /\ cb[s] = CbIdle

\* C17: whenever min_tone of the config asked for is below 20000 Hz, main
\* rejects the config or raises its base frequency, so that min_tone of the
\* config handed to the jammer is at least 20000 Hz; 19000 Hz with one tone
\* is raised to 20000 Hz or more.
C17_BandRaised ==
    Validated =>
        \/ mainpc = "exit" /\ result = "ConfigurationError"
        \/ /\ ClaimMinTone(BuildConfig(cli)) < 2 * 20000 =>
                  /\ main_config.frequency > cli.frequency
                  /\ ClaimMinTone(main_config) >= 2 * 20000
           /\ (cli.frequency = 19000 /\ cli.num_tones = 1) =>
                  main_config.frequency >= 20000
           /\ pc # "none" => ClaimMinTone(requested) >= 2 * 20000

\* C18: for 5 tones, spread 400 and base 22000 main computes
\* min_freq = 21200 and max_freq = 22800.
C18_ExampleMinMax ==
    (Validated /\ cli.num_tones = 5 /\ cli.spread = 400 /\ cli.frequency = 22000) =>
        /\ min_freq = 2 * 21200
        /\ max_freq = 2 * 22800

\* C19: a config whose min_tone is at least 20000 Hz and whose max_tone is
\* at most 24000 Hz is handed to the jammer with the frequency, num_tones,
\* spread and amplitude asked for, and neither band warning is printed.
C19_InBandUnmodified ==
    (/\ Validated
     /\ ClaimMinTone(BuildConfig(cli)) >= 2 * 20000
     /\ ClaimMaxTone(BuildConfig(cli)) <= 2 * 24000) =>
        /\ main_config = BuildConfig(cli)
        /\ "below_20k" \notin warnings
        /\ "nyquist" \notin warnings
        /\ pc # "none" => requested = BuildConfig(cli)

\* C20: while a stream started by main is live, every tone of its generator
\* is at 20000 Hz or above and below half the device's sample rate.
C20_TonesInBand ==
    (mainpc = "running" /\ \E s \in Streams : st[s] = "playing") =>
        \A i \in 0..(generator.config.num_tones - 1) :
            /\ ToneFreq2(generator.config, i) >= 2 * 20000
            /\ ToneFreq2(generator.config, i) < dev.sample_rate

\* C21: whenever max_tone of the config main hands to the jammer, adjusted or
\* not, is above 24000 Hz at main's 48000 Hz, the Nyquist warning has been
\* printed, and the config is handed over all the same.
C21_AliasWarned ==
    (Validated /\ main_config.sample_rate = 48000
               /\ ClaimMaxTone(main_config) > 2 * 24000) =>
        /\ "nyquist" \in warnings
        /\ ~(mainpc = "exit" /\ result = "ConfigurationError")
        /\ lastcall # "none" => requested = main_config

\* C22: the amplitude warning is printed exactly when the amplitude asked for
\* is above 0.4, and the config handed to the jammer and its generator carry
\* the amplitude asked for.
C22_AmplitudeFlagged ==
    Validated =>
        /\ ("amplitude" \in warnings) <=> (cli.amplitude > Amp040)
        /\ main_config.amplitude = cli.amplitude
        /\ lastcall # "none" => requested.amplitude = cli.amplitude
        /\ pc # "none" => generator.config.amplitude = cli.amplitude

\* a stream plays samples at the full amplitude asked for, after the warning
C22_Witness ==
    /\ mainpc = "running"
    /\ cli.amplitude = Amp100
    /\ "amplitude" \in warnings
    /\ \E s \in Streams :
           /\ st[s] = "playing"
           /\ \E i \in DOMAIN cb[s].data :
                  \E c \in DOMAIN cb[s].data[i].frame :
                      Abs(cb[s].data[i].frame[c]) > Amp040

\* the messages that could tell of the fall-back to plain speaker output: no
\* message says so, and the inner jammer's own log line is the only one that
\* names the speaker
FallbackSignals == {"Speaker jammer started"}

\* the messages that say the signal is mixed with the system's audio
MixingReports == {"Ultrasonic signal is being mixed with system audio."}

\* C24: once start() has returned Ok to a system-mode session, a message
\* that tells of the fall-back to plain speaker output has been emitted, and
\* no message ever says that the signal is being mixed.
C24_DegradationSignalled ==
    (kind = "system" /\ pc # "none") =>
        /\ (lastcall = "start" /\ pc = "idle" /\ result = "Ok") =>
               log \cap FallbackSignals # {}
        /\ log \cap MixingReports = {}

\* C33: for a config with at least one tone and a spread that is not
\* negative, every tone the generator makes of the config main validates
\* lies between main's min_freq and max_freq; so when the min_freq >= 20000
\* test passes, the config handed on, and the generator made of it, has no
\* tone below 20000 Hz.
C33_BoundsEncloseTones ==
    (Validated /\ cli.num_tones >= 1 /\ cli.spread >= 0) =>
        /\ \A i \in 0..(cli.num_tones - 1) :
               /\ min_freq <= ToneFreq2(BuildConfig(cli), i)
               /\ ToneFreq2(BuildConfig(cli), i) <= max_freq
        /\ min_freq >= 2 * 20000 =>
               /\ main_config = BuildConfig(cli)
               /\ \A i \in 0..(main_config.num_tones - 1) :
                      ToneFreq2(main_config, i) >= 2 * 20000
               /\ pc # "none" =>
                      \A i \in 0..(generator.config.num_tones - 1) :
                          ToneFreq2(generator.config, i) >= 2 * 20000

\* a config of several tones passes the test and its generator, with the
\* lowest tone strictly inside the bounds, feeds a playing stream
C33_Witness ==
    /\ mainpc = "running"
    /\ cli.num_tones > 1
    /\ cli.spread > 0
    /\ min_freq >= 2 * 20000
    /\ min_freq < ToneFreq2(generator.config, 0)
    /\ ToneFreq2(generator.config, generator.config.num_tones - 1) < max_freq
    /\ \E s \in Streams : st[s] = "playing" /\ cb[s].data # <<>>

----------------------------------------------------------------------------
(* Claims about the daemon commands, checked under SpecDaemon *)

\* C35: at most one daemon runs at a time: however the `daemon start`
\* invocations interleave, at most one daemon process hosts a jammer, the PID
\* file names that process, and an invocation that found a daemon running
\* starts no new one.
C35_SingleDaemon ==
    /\ Cardinality(Hosting) <= 1
    /\ \A i \in Hosting : pidfile = PidFileOf(i)
    /\ \A i \in Starters :
           (dstart[i].pc # "check" /\ dstart[i].found # {}) =>
               dstart[i].pc = "refused" /\ dstart[i].child = "none"

\* C36: stop_daemon() that finds no PID file returns Ok and signals no
\* process; one that reads a valid pid signals that process and no other,
\* and when it returns Ok, whether kill succeeded or failed, the PID file is
\* gone, so that is_running() is false and get_status() is "Stopped"; one
\* that reads an invalid pid returns an error, signals no process and
\* leaves the file where it is.
C36_StopDaemon ==
    /\ [](\A j \in Stoppers :
             dstop[j].pc = "done" =>
                 /\ dstop[j].saw = "absent" =>
                        dstop[j].result = "Ok" /\ dstop[j].signalled = {}
                 /\ dstop[j].saw = "valid" =>
                        dstop[j].signalled = {dstop[j].pid}
                 /\ dstop[j].saw = "invalid" =>
                        dstop[j].result # "Ok" /\ dstop[j].signalled = {})
    /\ [][\A j \in Stoppers :
             (dstop[j].pc # "done" /\ dstop'[j].pc = "done") =>
                 /\ dstop'[j].result = "Ok" =>
                        /\ ~pidfile'.exists
                        /\ ~is_running(pidfile', Alive')
                        /\ get_status(pidfile', Alive') = "Stopped"
                 /\ dstop'[j].saw = "invalid" =>
                        pidfile'.exists /\ pidfile' = pidfile]_vars

\* stop_daemon() has returned Ok after a kill that failed, on the PID a
\* daemon left that ended on its own, and the file is gone
C36_Witness ==
    \E j \in Stoppers :
        /\ dstop[j].pc = "done"
        /\ dstop[j].saw = "valid"
        /\ dstop[j].result = "Ok"
        /\ dstop[j].signalled = {dstop[j].pid}
        /\ ~dstop[j].killed
        /\ dstart[dstop[j].pid].child = "exited"
        /\ ~pidfile.exists
        /\ get_status(pidfile, Alive) = "Stopped"

====
